---- MODULE Spec2Model ----
(***************************************************************************)
(* The callback handler of ix (src/ix/chains/callbacks.py): IxHandler      *)
(* receives the lifecycle callbacks of a langchain run and records them as *)
(* TaskLogMessage rows and live-channel token updates.  RunContext is the  *)
(* per-run scratch state the handler keeps in a defaultdict.               *)
(*                                                                         *)
(* Python objects that are mutated in place are kept on heaps so that      *)
(* aliasing is visible: `registries` holds the defaultdict objects and     *)
(* `lists` the token lists; a handler holds a reference to its registry    *)
(* and a RunContext a reference to its token list.  A TaskLogMessage is    *)
(* identified by its primary key, its index in `store`.                    *)
(*                                                                         *)
(* The chat service (its tests are src/ix/api/tests/test_chat.py) is the   *)
(* second part: Chat and Task rows, the runs queued for agents, and the    *)
(* HTTP responses of its endpoints.                                        *)
(***************************************************************************)
EXTENDS Integers, Sequences, FiniteSets, TLC

\* Bounds of the model: the tokens buffered and the updates published, the
\* rows of the store, the readings of the clock, and the writes of one row.
MaxTokens == 2
MaxMsgs == 3
MaxTime == 1
MaxWrites == 3

\* Python's None, as a run id, a message id and a parent id (ids are >= 1).
None == 0
\* An attribute that was never assigned (IxHandler has no class-level `start`).
Unset == -1

\* The run ids (UUIDs) the engine hands out, and the handler instances.
RunIds == {1, 2}
Keys == {None} \cup RunIds
HandlerIds == {1, 2}

\* token: a str, or the None some providers send first (callbacks.py:154).
StrToken(s) == [is_str |-> TRUE, text |-> s]
NoneToken == [is_str |-> FALSE, text |-> ""]
Tokens == {StrToken("a"), StrToken("b"), NoneToken}

\* invocation_params of a model call: params.get("_type"), params.get("stream", False).
ParamSet == [_type : {"openai-chat", "other"}, stream : BOOLEAN]

\* error: Union[Exception, KeyboardInterrupt] (callbacks.py:220).
Errors ==
  { [type |-> "ValueError", text |-> "boom", is_exception |-> TRUE],
    [type |-> "KeyboardInterrupt", text |-> "", is_exception |-> FALSE] }

\* inputs of a chain run: every run has inputs of its own.
InputsOf(r) == IF r = 1 THEN "q1" ELSE "q2"

VARIABLES
  live,             \* the IxHandler instances constructed so far
  contexts,         \* contexts[h]: self.contexts, a reference into registries
  parent_think_msg, \* parent_think_msg[h]: id of the THINK message, or None
  start,            \* start[h]: self.start, or Unset
  registries,       \* heap of defaultdict(RunContext) objects: key -> RunContext
  lists,            \* heap of token lists: lists[g][k] is the list made for key k of registry g
  store,            \* TaskLogMessage rows; the id of a row is its index
  channel,          \* updates published by ChatMessageTokenSubscription.on_new_token
  now,              \* the last reading of time.time()
  chains,           \* the engine's chain runs: status, parent and handler
  raised,           \* the exception the last callback raised, or "" when it returned
  audit,            \* per row of store: number of writes, and the run key of a placeholder
  trip,             \* per run key: the placeholder of a round trip in progress
  chats,            \* the Chat rows: existence, name, lead, member agents, task
  tasks,            \* the Task rows; the id of a task is its index
  queue,            \* the runs handed to start_agent_loop.delay
  response          \* the last HTTP response of the chat service

\* The state of the chat service besides the message store.
chat_vars == <<chats, tasks, queue, response>>

vars == <<live, contexts, parent_think_msg, start, registries, lists, store,
          channel, now, chains, raised, audit, trip, chats, tasks, queue, response>>

\* self.agent.alias and self.task.id of handler h.
AgentAlias(h) == IF h = 1 THEN "agent1" ELSE "agent2"
TaskId(h) == h

----------------------------------------------------------------------------
\* RunContext and the registry

\* One list object that every RunContext is given (a shared mutable default).
SharedList(g, k) == [reg |-> 1, key |-> 1]

\* One list object per registry, handed to each of its RunContexts.
ListOfRegistry(g, k) == [reg |-> g, key |-> None]

\* dataclasses.field(default_factory=list): every RunContext gets a list of its
\* own, named here by the registry and the key it is made for.
NewList(g, k) == [reg |-> g, key |-> k]

\* RunContext(): the defaults of the dataclass.
RunContext(g, k) == [is_streaming |-> FALSE, message |-> None, tokens |-> NewList(g, k)]

\* A lookup that hands out a new RunContext every time, also for a key that
\* has one.
contexts_getitem_fresh(reg, g, k) ==
  [j \in DOMAIN reg \cup {k} |-> IF j = k THEN RunContext(g, k) ELSE reg[j]]

\* self.contexts[k] on the defaultdict(RunContext) g: the entries after the
\* lookup, the entry of k created when absent.
contexts_getitem(reg, g, k) ==
  IF k \in DOMAIN reg THEN reg ELSE reg @@ (k :> RunContext(g, k))

\* context.tokens, read through the reference.
TokensOf(ls, context) == ls[context.tokens.reg][context.tokens.key]

\* A join that puts the newest token first.
RECURSIVE JoinNewestFirst(_)
JoinNewestFirst(toks) ==
  IF toks = <<>> THEN "" ELSE JoinNewestFirst(Tail(toks)) \o Head(toks)

\* "".join(self.tokens)
RECURSIVE Join(_)
Join(toks) == IF toks = <<>> THEN "" ELSE Head(toks) \o Join(Tail(toks))

\* A finalize that saves the whole row and detaches it from its parent.
finalize_stream_whole_row(context, ls, st) ==
  IF context.message = None
  THEN st
  ELSE [st EXCEPT ![context.message] =
          [@ EXCEPT !.parent_id = None,
                    !.content = [@ EXCEPT !.stream = FALSE,
                                          !.text = Join(TokensOf(ls, context))]]]

\* A finalize that adds the joined tokens to the text the row has.
finalize_stream_appending(context, ls, st) ==
  IF context.message = None
  THEN st
  ELSE [st EXCEPT ![context.message].content =
          [@ EXCEPT !.stream = FALSE, !.text = @ \o Join(TokensOf(ls, context))]]

\* A finalize that makes the message when the context has none.
finalize_stream_or_create(context, ls, st) ==
  IF context.message = None
  THEN Append(st, [task_id |-> None, role |-> "assistant", parent_id |-> None,
                   content |-> [type |-> "ASSISTANT", text |-> Join(TokensOf(ls, context)),
                                agent |-> "", stream |-> FALSE]])
  ELSE [st EXCEPT ![context.message].content =
          [@ EXCEPT !.stream = FALSE, !.text = Join(TokensOf(ls, context))]]

\* RunContext.finalize_stream: the store after the write.
finalize_stream(context, ls, st) ==
  IF context.message = None
  THEN st
  ELSE [st EXCEPT ![context.message].content =
          [@ EXCEPT !.stream = FALSE, !.text = Join(TokensOf(ls, context))]]

\* Whether finalize_stream writes (message.asave) at all.
finalize_writes(context) == context.message # None

----------------------------------------------------------------------------
\* Rows the handler creates

\* IxHandler.send_agent_msg: the row handed to TaskLogMessage.objects.acreate.
send_agent_msg(h, text, stream) ==
  [ task_id |-> TaskId(h), role |-> "assistant", parent_id |-> parent_think_msg[h],
    content |-> [type |-> "ASSISTANT", text |-> text, agent |-> AgentAlias(h),
                 stream |-> stream] ]

\* traceback.format_exception(type(error), error, error.__traceback__), joined.
traceback_string(error) == "Traceback: " \o error.type \o ": " \o error.text

\* IxHandler.send_error_msg: the row of the EXECUTE_ERROR message.
send_error_msg(h, error) ==
  [ task_id |-> TaskId(h), role |-> "assistant",
    parent_id |-> IF parent_think_msg[h] # None THEN parent_think_msg[h] ELSE None,
    content |-> [type |-> "EXECUTE_ERROR", error_type |-> error.type,
                 text |-> error.text, details |-> traceback_string(error)] ]

\* The THINK row of on_chain_start.
think_msg(h, inputs) ==
  [ task_id |-> TaskId(h), role |-> "system", parent_id |-> None,
    content |-> [type |-> "THINK", input |-> inputs, agent |-> AgentAlias(h)] ]

\* The THOUGHT row of on_chain_end; t is the reading of time.time().
thought_msg(h, t) ==
  [ task_id |-> TaskId(h), role |-> "system", parent_id |-> parent_think_msg[h],
    content |-> [type |-> "THOUGHT", runtime |-> t - start[h]] ]

----------------------------------------------------------------------------
\* The engine (langchain) calling the handler

IdleRun == [status |-> "idle", parent |-> None, h |-> None]

\* The chain runs the engine has started with handler h.
StartedRuns(h) == {r \in RunIds : chains[r].status # "idle" /\ chains[r].h = h}

\* A chain run of handler h the engine has started and not yet ended.
IsOpen(h, r) == r \in StartedRuns(h) /\ chains[r].status = "open"

\* The parent of a new run: none (a root run) or a chain run that is open.
MayParent(h, p) == p = None \/ IsOpen(h, p)

\* The engine ends a chain only after the chains it started under it.
NoOpenChild(h, r) == \A c \in RunIds : ~(IsOpen(h, c) /\ chains[c].parent = r)

\* time.time(): a reading not before the last one.
Clock == now..MaxTime

NoTrip == None

\* The tokens buffered in the lists of one registry together.
RECURSIVE SumLen(_, _)
SumLen(row, ks) ==
  IF ks = {} THEN 0
  ELSE LET k == CHOOSE x \in ks : TRUE IN Len(row[k]) + SumLen(row, ks \ {k})

\* The tokens buffered in the lists of the registries gs together.
RECURSIVE Buffered(_)
Buffered(gs) ==
  IF gs = {} THEN 0
  ELSE LET g == CHOOSE x \in gs : TRUE IN SumLen(lists[g], Keys) + Buffered(gs \ {g})

\* The on_llm_new_token calls so far that buffered or published a token.
TokenCalls ==
  LET buffered == Buffered(HandlerIds)
      published == {i \in 1..Len(channel) : channel[i].text.is_str}
  IN Len(channel) + buffered - Cardinality(published)

\* The bounds of the model on the rows of the store and on the tokens.
HasRoom == Len(store) < MaxMsgs
MayToken == TokenCalls < MaxTokens

\* The registry of handler h.
Registry(h) == registries[contexts[h]]

----------------------------------------------------------------------------
\* The chat service: data

\* The chat ids the service hands out, and an id no chat ever has.
ChatIds == {1, 2}
MissingChat == 3
ChatIdSpace == ChatIds \cup {MissingChat}

\* The agents that exist, the default lead among them, and an id of no agent.
Agents == {1, 2}
IX_AGENT_V2 == 1
MissingAgent == 3
AgentIdSpace == Agents \cup {MissingAgent}

\* agent.alias and agent.chain_id; a text is the sequence of its characters.
alias_of(a) == IF a = 1 THEN <<"i", "x">> ELSE <<"b">>
chain_id_of(a) == a + 10

\* The names a chat is given.
ChatNames == {"Chat 1", "New Chat"}

\* The texts posted to a chat: one with an artifact key, one addressed to the
\* alias of agent 2.
Texts ==
  { <<"h", " ", "{", "k", "}">>,
    <<"@", "b", " ", "h", "i">> }

\* The characters of an alias (\w).
WordChars == {"i", "x", "b", "h", "k"}

\* The longest prefix of text made of word characters.
RECURSIVE TakeWord(_)
TakeWord(text) ==
  IF text = <<>> \/ Head(text) \notin WordChars THEN <<>>
  ELSE <<Head(text)>> \o TakeWord(Tail(text))

\* The alias of a leading @mention of text, or <<>> when there is none.
mention_of(text) ==
  IF text # <<>> /\ Head(text) = "@" THEN TakeWord(Tail(text)) ELSE <<>>

\* The keys of the {key} placeholders of text, in order.
RECURSIVE artifact_keys_of(_)
artifact_keys_of(text) ==
  IF text = <<>> THEN <<>>
  ELSE IF Head(text) = "{"
       THEN LET key == TakeWord(Tail(text))
                rest == SubSeq(text, Len(key) + 2, Len(text))
            IN IF key # <<>> /\ rest # <<>> /\ Head(rest) = "}"
               THEN <<key>> \o artifact_keys_of(Tail(rest))
               ELSE artifact_keys_of(Tail(text))
       ELSE artifact_keys_of(Tail(text))

\* A chat id that has no Chat row (never created, or deleted).
NoChat == [status |-> "absent", name |-> "", lead |-> None, agents |-> {}, task |-> None]

\* The chat exists.
chat_exists(c) == c \in ChatIds /\ chats[c].status = "live"

\* The fields of a response; a response fills in those of its kind.
NoResponse ==
  [status |-> 0, detail |-> "", id |-> None, name |-> "", lead_id |-> None,
   chat_id |-> None, agent_id |-> None, content |-> "", objects |-> <<>>]

\* A 404 response with the given detail.
NotFound(detail) == [NoResponse EXCEPT !.status = 404, !.detail = detail]

\* The ids of set ids, smallest (oldest) first.
RECURSIVE OldestFirst(_)
OldestFirst(ids) ==
  IF ids = {} THEN <<>>
  ELSE LET m == CHOOSE x \in ids : \A y \in ids : x <= y
       IN <<m>> \o OldestFirst(ids \ {m})


Init ==
  /\ live = {1}
  /\ contexts = [h \in HandlerIds |-> IF h = 1 THEN 1 ELSE None]
  /\ parent_think_msg = [h \in HandlerIds |-> None]
  /\ start = [h \in HandlerIds |-> Unset]
  /\ registries = [g \in HandlerIds |-> <<>>]
  /\ lists = [g \in HandlerIds |-> [k \in Keys |-> <<>>]]
  /\ store = <<>>
  /\ channel = <<>>
  /\ now = 0
  /\ chains = [r \in RunIds |-> IdleRun]
  /\ raised = ""
  /\ audit = <<>>
  /\ trip = [k \in Keys |-> NoTrip]
  /\ chats = [c \in ChatIds |-> NoChat]
  /\ tasks = <<>>
  /\ queue = <<>>
  /\ response = NoResponse

\* A guard that lets every chain start write a THINK message.
always_think(h) == TRUE

\* `if not self.parent_think_msg`: no THINK message was recorded yet.
no_think_msg(h) == parent_think_msg[h] = None

\* IxHandler.on_chain_start
on_chain_start(h, inputs, run_id, parent_run_id) ==
  /\ h \in live
  /\ chains[run_id].status = "idle"
  /\ \A r \in RunIds : r < run_id => chains[r].status # "idle"
  /\ MayParent(h, parent_run_id)
  /\ no_think_msg(h) => HasRoom
  /\ chains' = [chains EXCEPT ![run_id] =
                  [status |-> "open", parent |-> parent_run_id, h |-> h]]
  /\ IF no_think_msg(h)
     THEN /\ \E t \in Clock : now' = t /\ start' = [start EXCEPT ![h] = t]
          /\ store' = Append(store, think_msg(h, inputs))
          /\ audit' = Append(audit, [writes |-> 1, run |-> Unset])
          /\ parent_think_msg' = [parent_think_msg EXCEPT ![h] = Len(store) + 1]
     ELSE UNCHANGED <<now, start, store, audit, parent_think_msg>>
  /\ raised' = ""
  /\ UNCHANGED <<live, contexts, registries, lists, channel, trip>>
  /\ UNCHANGED chat_vars

\* context.is_streaming after lines 136-137 of on_chat_model_start.
streaming_after(context, params) ==
  IF params._type = "openai-chat" THEN params.stream ELSE context.is_streaming

\* IxHandler.on_chat_model_start
on_chat_model_start(h, params, parent_run_id) ==
  /\ h \in live
  /\ IsOpen(h, parent_run_id)
  /\ LET g == contexts[h]
         reg == contexts_getitem(registries[g], g, parent_run_id)
         context == reg[parent_run_id]
         streaming == streaming_after(context, params)
         fresh == /\ ~context.is_streaming
                  /\ context.message = None
                  /\ TokensOf(lists, context) = <<>>
     IN /\ streaming => HasRoom
        /\ IF streaming
           THEN /\ store' = Append(store, send_agent_msg(h, "", TRUE))
                /\ audit' = Append(audit, [writes |-> 1, run |-> parent_run_id])
                /\ registries' = [registries EXCEPT ![g] =
                      [reg EXCEPT ![parent_run_id] =
                         [@ EXCEPT !.is_streaming = TRUE, !.message = Len(store) + 1]]]
                /\ trip' = [trip EXCEPT ![parent_run_id] =
                      IF fresh THEN Len(store) + 1 ELSE NoTrip]
           ELSE /\ registries' = [registries EXCEPT ![g] =
                      [reg EXCEPT ![parent_run_id].is_streaming = FALSE]]
                /\ trip' = [trip EXCEPT ![parent_run_id] = NoTrip]
                /\ UNCHANGED <<store, audit>>
  /\ raised' = ""
  /\ UNCHANGED <<live, contexts, parent_think_msg, start, lists, channel, now, chains>>
  /\ UNCHANGED chat_vars

\* An index that counts from zero.
token_index_from_zero(ls, context) == Len(TokensOf(ls, context)) - 1

\* An index one past the length of the buffer.
token_index_past_end(ls, context) == Len(TokensOf(ls, context)) + 1

\* index=len(context.tokens) of the update on_llm_new_token publishes.
token_index(ls, context) == Len(TokensOf(ls, context))

\* An on_llm_new_token that looks for the placeholder before it buffers the
\* token: a call without a placeholder leaves the buffer as it was.
on_llm_new_token_checked(h, token, parent_run_id) ==
  /\ h \in live
  /\ IsOpen(h, parent_run_id)
  /\ MayToken
  /\ LET g == contexts[h]
         reg == contexts_getitem(registries[g], g, parent_run_id)
         context == reg[parent_run_id]
         ref == context.tokens
         appended == IF token.is_str /\ context.message # None
                     THEN [lists EXCEPT ![ref.reg][ref.key] = Append(@, token.text)]
                     ELSE lists
     IN /\ registries' = [registries EXCEPT ![g] = reg]
        /\ lists' = appended
        /\ IF context.message = None
           THEN /\ raised' = "AttributeError"
                /\ UNCHANGED channel
           ELSE /\ channel' = Append(channel,
                      [task |-> TaskId(h), message_id |-> context.message,
                       index |-> token_index(appended, context), text |-> token])
                /\ raised' = ""
  /\ UNCHANGED <<live, contexts, parent_think_msg, start, store, now, chains, audit,
                 trip>>
  /\ UNCHANGED chat_vars

\* IxHandler.on_llm_new_token
on_llm_new_token(h, token, parent_run_id) ==
  /\ h \in live
  /\ IsOpen(h, parent_run_id)
  /\ MayToken
  /\ LET g == contexts[h]
         reg == contexts_getitem(registries[g], g, parent_run_id)
         context == reg[parent_run_id]
         ref == context.tokens
         appended == IF token.is_str
                     THEN [lists EXCEPT ![ref.reg][ref.key] = Append(@, token.text)]
                     ELSE lists
     IN /\ registries' = [registries EXCEPT ![g] = reg]
        /\ lists' = appended
        /\ IF context.message = None
           THEN /\ raised' = "AttributeError"
                /\ UNCHANGED channel
           ELSE /\ channel' = Append(channel,
                      [task |-> TaskId(h), message_id |-> context.message,
                       index |-> token_index(appended, context), text |-> token])
                /\ raised' = ""
  /\ UNCHANGED <<live, contexts, parent_think_msg, start, store, now, chains, audit,
                 trip>>
  /\ UNCHANGED chat_vars

\* A test that takes every chain for the outermost one.
always_outermost(parent_run_id) == TRUE

\* `if not parent_run_id`: the chain that ends is the outermost one.
is_outermost(parent_run_id) == parent_run_id = None

\* IxHandler.on_chain_end
on_chain_end(h, run_id, parent_run_id) ==
  /\ h \in live
  /\ IsOpen(h, run_id)
  /\ chains[run_id].parent = parent_run_id
  /\ NoOpenChild(h, run_id)
  /\ (is_outermost(parent_run_id) /\ parent_think_msg[h] # None) => HasRoom
  /\ chains' = [chains EXCEPT ![run_id] = [@ EXCEPT !.status = "ended", !.parent = None]]
  /\ LET g == contexts[h]
         reg == contexts_getitem(registries[g], g, run_id)
         context == reg[run_id]
         finalized == IF context.is_streaming
                      THEN finalize_stream(context, lists, store)
                      ELSE store
         saved == IF context.is_streaming /\ finalize_writes(context)
                  THEN [audit EXCEPT ![context.message].writes = @ + 1]
                  ELSE audit
     IN /\ registries' = [registries EXCEPT ![g] = reg]
        /\ IF ~is_outermost(parent_run_id)
           THEN /\ store' = finalized
                /\ audit' = saved
                /\ raised' = ""
                /\ UNCHANGED now
           ELSE IF parent_think_msg[h] = None \/ start[h] = Unset
           THEN /\ store' = finalized
                /\ audit' = saved
                /\ raised' = "AttributeError"
                /\ UNCHANGED now
           ELSE /\ \E t \in Clock :
                     /\ now' = t
                     /\ store' = Append(finalized, thought_msg(h, t))
                /\ audit' = Append(saved, [writes |-> 1, run |-> Unset])
                /\ raised' = ""
  /\ UNCHANGED <<live, contexts, parent_think_msg, start, lists, channel, trip>>
  /\ UNCHANGED chat_vars

\* IxHandler.on_chain_error
on_chain_error(h, error, run_id, parent_run_id) ==
  /\ h \in live
  /\ IsOpen(h, run_id)
  /\ chains[run_id].parent = parent_run_id
  /\ NoOpenChild(h, run_id)
  /\ error.is_exception => HasRoom
  /\ chains' = [chains EXCEPT ![run_id] = [@ EXCEPT !.status = "failed", !.parent = None]]
  /\ IF error.is_exception
     THEN /\ store' = Append(store, send_error_msg(h, error))
          /\ audit' = Append(audit, [writes |-> 1, run |-> Unset])
          /\ raised' = ""
     ELSE /\ raised' = "AssertionError"
          /\ UNCHANGED <<store, audit>>
  /\ UNCHANGED <<live, contexts, parent_think_msg, start, registries, lists, channel,
                 now, trip>>
  /\ UNCHANGED chat_vars

\* One dict for all handlers (the class attribute, never replaced).
ClassRegistry(h) == 1

\* The defaultdict `self.contexts = defaultdict(RunContext)` makes for handler h:
\* an object of its own.
NewRegistry(h) == h

\* IxHandler.__init__: a further handler instance, for a task of its own.
IxHandler__init__(h) ==
  /\ h \notin live
  /\ live' = live \cup {h}
  /\ contexts' = [contexts EXCEPT ![h] = NewRegistry(h)]
  /\ raised' = ""
  /\ UNCHANGED <<parent_think_msg, start, registries, lists, store, channel, now,
                 chains, audit, trip>>
  /\ UNCHANGED chat_vars

Next ==
  \/ \E h \in HandlerIds, r \in RunIds, p \in Keys :
       on_chain_start(h, InputsOf(r), r, p)
  \/ \E h \in HandlerIds, ps \in ParamSet, p \in Keys : on_chat_model_start(h, ps, p)
  \/ \E h \in HandlerIds, t \in Tokens, p \in Keys : on_llm_new_token(h, t, p)
  \/ \E h \in HandlerIds, r \in RunIds, p \in Keys : on_chain_end(h, r, p)
  \/ \E h \in HandlerIds, e \in Errors, r \in RunIds, p \in Keys :
       on_chain_error(h, e, r, p)

Spec == Init /\ [][Next]_vars

\* Two task executions, each with a handler of its own, over one store.
NextTwo ==
  \/ \E h \in HandlerIds : IxHandler__init__(h)
  \/ Next

SpecTwo == Init /\ [][NextTwo]_vars

\* A failed create that is tried again and then stores the row.
acreate_retried(st, row) == Append(st, row)

\* TaskLogMessage.objects.acreate that raises: the store has no new row, and
\* the exception leaves the callback at the await.
acreate_failed(st, row) == st

\* IxHandler.on_chain_start when the THINK write raises (line 184): line 183
\* has run, line 189 has not.
on_chain_start_fails(h, inputs, run_id, parent_run_id) ==
  /\ h \in live
  /\ chains[run_id].status = "idle"
  /\ \A r \in RunIds : r < run_id => chains[r].status # "idle"
  /\ MayParent(h, parent_run_id)
  /\ no_think_msg(h)
  /\ chains' = [chains EXCEPT ![run_id] =
                  [status |-> "open", parent |-> parent_run_id, h |-> h]]
  /\ \E t \in Clock : now' = t /\ start' = [start EXCEPT ![h] = t]
  /\ store' = acreate_failed(store, think_msg(h, inputs))
  /\ raised' = "DatabaseError"
  /\ UNCHANGED <<live, contexts, parent_think_msg, registries, lists, channel, audit,
                 trip>>
  /\ UNCHANGED chat_vars

\* IxHandler.on_chat_model_start when send_agent_msg raises (line 141): the
\* flag of line 137 is set, context.message is not assigned.
on_chat_model_start_fails(h, params, parent_run_id) ==
  /\ h \in live
  /\ IsOpen(h, parent_run_id)
  /\ LET g == contexts[h]
         reg == contexts_getitem(registries[g], g, parent_run_id)
         context == reg[parent_run_id]
     IN /\ streaming_after(context, params)
        /\ registries' = [registries EXCEPT ![g] =
              [reg EXCEPT ![parent_run_id].is_streaming = TRUE]]
        /\ trip' = [trip EXCEPT ![parent_run_id] = NoTrip]
  /\ store' = acreate_failed(store, send_agent_msg(h, "", TRUE))
  /\ raised' = "DatabaseError"
  /\ UNCHANGED <<live, contexts, parent_think_msg, start, lists, channel, now, chains,
                 audit>>
  /\ UNCHANGED chat_vars

\* IxHandler.on_chain_end when message.asave of finalize_stream raises (line
\* 52): the row in the store is as before and line 205 is not reached.
on_chain_end_finalize_fails(h, run_id, parent_run_id) ==
  /\ h \in live
  /\ IsOpen(h, run_id)
  /\ chains[run_id].parent = parent_run_id
  /\ NoOpenChild(h, run_id)
  /\ chains' = [chains EXCEPT ![run_id] = [@ EXCEPT !.status = "ended", !.parent = None]]
  /\ LET g == contexts[h]
         reg == contexts_getitem(registries[g], g, run_id)
         context == reg[run_id]
     IN /\ context.is_streaming
        /\ finalize_writes(context)
        /\ registries' = [registries EXCEPT ![g] = reg]
  /\ raised' = "DatabaseError"
  /\ UNCHANGED <<live, contexts, parent_think_msg, start, lists, store, channel, now,
                 audit, trip>>
  /\ UNCHANGED chat_vars

\* IxHandler.on_chain_end when the THOUGHT write raises (line 206): the
\* finalize of line 202 is done.
on_chain_end_thought_fails(h, run_id, parent_run_id) ==
  /\ h \in live
  /\ IsOpen(h, run_id)
  /\ chains[run_id].parent = parent_run_id
  /\ NoOpenChild(h, run_id)
  /\ is_outermost(parent_run_id)
  /\ parent_think_msg[h] # None /\ start[h] # Unset
  /\ chains' = [chains EXCEPT ![run_id] = [@ EXCEPT !.status = "ended", !.parent = None]]
  /\ LET g == contexts[h]
         reg == contexts_getitem(registries[g], g, run_id)
         context == reg[run_id]
         finalized == IF context.is_streaming
                      THEN finalize_stream(context, lists, store)
                      ELSE store
     IN /\ registries' = [registries EXCEPT ![g] = reg]
        /\ \E t \in Clock :
             /\ now' = t
             /\ store' = acreate_failed(finalized, thought_msg(h, t))
        /\ audit' = IF context.is_streaming /\ finalize_writes(context)
                    THEN [audit EXCEPT ![context.message].writes = @ + 1]
                    ELSE audit
  /\ raised' = "DatabaseError"
  /\ UNCHANGED <<live, contexts, parent_think_msg, start, lists, channel, trip>>
  /\ UNCHANGED chat_vars

\* The callbacks that write to the message store, over a store whose writes
\* may fail.
NextFail ==
  \/ \E h \in HandlerIds, r \in RunIds, p \in Keys :
       on_chain_start_fails(h, InputsOf(r), r, p)
  \/ \E h \in HandlerIds, ps \in ParamSet, p \in Keys :
       on_chat_model_start_fails(h, ps, p)
  \/ \E h \in HandlerIds, r \in RunIds, p \in Keys :
       on_chain_end_finalize_fails(h, r, p)
  \/ \E h \in HandlerIds, r \in RunIds, p \in Keys :
       on_chain_end_thought_fails(h, r, p)
  \/ \E h \in HandlerIds, r \in RunIds, p \in Keys :
       on_chain_start(h, InputsOf(r), r, p)
  \/ \E h \in HandlerIds, ps \in ParamSet, p \in Keys : on_chat_model_start(h, ps, p)
  \/ \E h \in HandlerIds, r \in RunIds, p \in Keys : on_chain_end(h, r, p)

SpecFail == Init /\ [][NextFail]_vars

\* RunContext.finalize_stream called on the context of key k of handler h by
\* any holder of the context.
RunContext_finalize_stream(h, k) ==
  /\ h \in live
  /\ k \in DOMAIN Registry(h)
  /\ LET context == Registry(h)[k]
     IN /\ finalize_writes(context) => audit[context.message].writes < MaxWrites
        /\ store' = finalize_stream(context, lists, store)
        /\ audit' = IF finalize_writes(context)
                    THEN [audit EXCEPT ![context.message].writes = @ + 1]
                    ELSE audit
  /\ raised' = ""
  /\ UNCHANGED <<live, contexts, parent_think_msg, start, registries, lists, channel,
                 now, chains, trip>>
  /\ UNCHANGED chat_vars

\* The handler's callbacks, and finalize_stream called on its own.
NextFinalize ==
  \/ \E h \in HandlerIds, k \in Keys : RunContext_finalize_stream(h, k)
  \/ Next

SpecFinalize == Init /\ [][NextFinalize]_vars

\* IxHandler.on_chain_start up to its await (lines 182-184): the test of line
\* 182 found no think message, line 183 has read the clock, and the coroutine
\* is suspended at the THINK write while other callbacks run.
on_chain_start_begin(h, inputs, run_id, parent_run_id) ==
  /\ h \in live
  /\ chains[run_id].status = "idle"
  /\ \A r \in RunIds : r < run_id => chains[r].status # "idle"
  /\ MayParent(h, parent_run_id)
  /\ no_think_msg(h)
  /\ chains' = [chains EXCEPT ![run_id] =
                  [status |-> "starting", parent |-> parent_run_id, h |-> h]]
  /\ \E t \in Clock : now' = t /\ start' = [start EXCEPT ![h] = t]
  /\ UNCHANGED <<live, contexts, parent_think_msg, registries, lists, store, channel,
                 raised, audit, trip>>
  /\ UNCHANGED chat_vars

\* IxHandler.on_chain_start from its await on (lines 184-189): the THINK row is
\* created and line 189 assigns it, whatever self.parent_think_msg holds by now.
on_chain_start_complete(h, inputs, run_id) ==
  /\ h \in live
  /\ chains[run_id].status = "starting"
  /\ chains[run_id].h = h
  /\ HasRoom
  /\ chains' = [chains EXCEPT ![run_id].status = "open"]
  /\ store' = Append(store, think_msg(h, inputs))
  /\ audit' = Append(audit, [writes |-> 1, run |-> Unset])
  /\ parent_think_msg' = [parent_think_msg EXCEPT ![h] = Len(store) + 1]
  /\ raised' = ""
  /\ UNCHANGED <<live, contexts, start, registries, lists, channel, now, trip>>
  /\ UNCHANGED chat_vars

\* The handler's callbacks when on_chain_start may be suspended at its await
\* while the engine delivers the callbacks of other runs.
NextOverlap ==
  \/ \E h \in HandlerIds, r \in RunIds, p \in Keys :
       on_chain_start_begin(h, InputsOf(r), r, p)
  \/ \E h \in HandlerIds, r \in RunIds : on_chain_start_complete(h, InputsOf(r), r)
  \/ Next

SpecOverlap == Init /\ [][NextOverlap]_vars

----------------------------------------------------------------------------
\* The chat service: endpoints

\* The state of the handlers, which the chat service leaves alone.
handler_vars == <<live, contexts, parent_think_msg, start, registries, lists, channel,
                  now, chains, raised, trip>>

\* The chat resource of chat c, as a response.
chat_response(c, chat) ==
  [NoResponse EXCEPT !.status = 200, !.id = c, !.name = chat.name, !.lead_id = chat.lead]

\* POST /chats/ {name, lead_id?}: the lead is the requested agent, or the
\* default agent when none is requested; the chat gets a task of its own.
create_chat(name, lead_id) ==
  /\ \E c \in ChatIds :
       /\ chats[c].status = "absent"
       /\ \A d \in ChatIds : d < c => chats[d].status # "absent"
       /\ LET chat == [status |-> "live", name |-> name,
                       lead |-> IF lead_id = None THEN IX_AGENT_V2 ELSE lead_id,
                       agents |-> {}, task |-> Len(tasks) + 1]
          IN /\ chats' = [chats EXCEPT ![c] = chat]
             /\ response' = chat_response(c, chat)
  /\ tasks' = Append(tasks, [parent |-> None])
  /\ UNCHANGED <<store, audit, queue>>
  /\ UNCHANGED handler_vars

\* GET /chats/{id}
get_chat(c) ==
  /\ response' = IF chat_exists(c) THEN chat_response(c, chats[c])
                 ELSE NotFound("Chat not found")
  /\ UNCHANGED <<chats, tasks, queue, store, audit>>
  /\ UNCHANGED handler_vars

\* GET /chats/: the chats that exist.
list_chats ==
  /\ response' = [NoResponse EXCEPT !.status = 200,
                                    !.objects = OldestFirst({c \in ChatIds : chat_exists(c)})]
  /\ UNCHANGED <<chats, tasks, queue, store, audit>>
  /\ UNCHANGED handler_vars

\* PUT /chats/{id} {name, lead_id}
update_chat(c, name, lead_id) ==
  /\ IF chat_exists(c)
     THEN LET chat == [chats[c] EXCEPT !.name = name, !.lead = lead_id]
          IN /\ chats' = [chats EXCEPT ![c] = chat]
             /\ response' = chat_response(c, chat)
     ELSE /\ response' = NotFound("Chat not found")
          /\ UNCHANGED chats
  /\ UNCHANGED <<tasks, queue, store, audit>>
  /\ UNCHANGED handler_vars

\* A delete that leaves the Chat row in place.
keep_row(chat) == chat

\* The Chat row after its deletion: there is none.
delete_row(chat) == [NoChat EXCEPT !.status = "deleted"]

\* DELETE /chats/{id}: the task and its messages stay.
delete_chat(c) ==
  /\ IF chat_exists(c)
     THEN /\ chats' = [chats EXCEPT ![c] = delete_row(@)]
          /\ response' = [NoResponse EXCEPT !.status = 200, !.id = c]
     ELSE /\ response' = NotFound("Chat not found")
          /\ UNCHANGED chats
  /\ UNCHANGED <<tasks, queue, store, audit>>
  /\ UNCHANGED handler_vars

\* A check that answers a missing chat with the detail of GET /chats/{id}.
membership_error_as_get(c, a) ==
  IF ~chat_exists(c) THEN "Chat not found"
  ELSE IF a \notin Agents THEN "Agent does not exist."
  ELSE ""

\* The detail of the 404 of a membership request, or "" when chat and agent
\* exist.
membership_error(c, a) ==
  IF ~chat_exists(c) THEN "Chat does not exist."
  ELSE IF a \notin Agents THEN "Agent does not exist."
  ELSE ""

\* A test that only looks at the member set.
not_a_member(chat, a) == a \notin chat.agents

\* Whether adding agent a changes chat: it is neither the lead nor a member.
needs_adding(chat, a) == a # chat.lead /\ a \notin chat.agents

\* PUT /chats/{id}/agents/{agent_id}
add_agent(c, a) ==
  /\ IF membership_error(c, a) # ""
     THEN /\ response' = NotFound(membership_error(c, a))
          /\ UNCHANGED chats
     ELSE IF needs_adding(chats[c], a)
     THEN /\ chats' = [chats EXCEPT ![c].agents = @ \cup {a}]
          /\ response' = [NoResponse EXCEPT !.status = 200, !.chat_id = c, !.agent_id = a]
     ELSE /\ response' = [NoResponse EXCEPT !.status = 200, !.chat_id = c]
          /\ UNCHANGED chats
  /\ UNCHANGED <<tasks, queue, store, audit>>
  /\ UNCHANGED handler_vars

\* DELETE /chats/{id}/agents/{agent_id}
remove_agent(c, a) ==
  /\ IF membership_error(c, a) # ""
     THEN /\ response' = NotFound(membership_error(c, a))
          /\ UNCHANGED chats
     ELSE IF a \in chats[c].agents
     THEN /\ chats' = [chats EXCEPT ![c].agents = @ \ {a}]
          /\ response' = [NoResponse EXCEPT !.status = 200, !.chat_id = c, !.agent_id = a]
     ELSE /\ response' = [NoResponse EXCEPT !.status = 200, !.chat_id = c]
          /\ UNCHANGED chats
  /\ UNCHANGED <<tasks, queue, store, audit>>
  /\ UNCHANGED handler_vars

\* A routing that sends every message to the lead.
always_lead(chat, text) == None

\* The member agent a message is addressed to by a leading @alias, or None
\* when the message goes to the lead.
addressed_agent(chat, text) ==
  LET named == {a \in chat.agents : alias_of(a) = mention_of(text)}
  IN IF named = {} THEN None ELSE CHOOSE a \in named : TRUE

\* The FEEDBACK message of a posted text.
feedback_msg(task_id, text) ==
  [ task_id |-> task_id, role |-> "user", parent_id |-> None, agent_id |-> None,
    content |-> [type |-> "FEEDBACK", feedback |-> text] ]

\* POST /chats/{id}/messages {text}: the feedback message, the task of the run
\* (the chat's task, or a new subtask for an addressed member), the run queued.
send_message(c, text) ==
  /\ chat_exists(c)
  /\ HasRoom
  /\ LET chat == chats[c]
         agent == addressed_agent(chat, text)
         task_id == IF agent = None THEN chat.task ELSE Len(tasks) + 1
         chain_id == chain_id_of(IF agent = None THEN chat.lead ELSE agent)
     IN /\ store' = Append(store, feedback_msg(chat.task, text))
        /\ audit' = Append(audit, [writes |-> 1, run |-> Unset])
        /\ tasks' = IF agent = None THEN tasks
                    ELSE Append(tasks, [parent |-> chat.task])
        /\ queue' = Append(queue,
              [task_id |-> task_id, chain_id |-> chain_id,
               inputs |-> [user_input |-> text, chat_id |-> c,
                           artifact_keys |-> artifact_keys_of(text)]])
        /\ response' = [NoResponse EXCEPT !.status = 200, !.id = Len(store) + 1,
                                          !.content = "FEEDBACK"]
  /\ UNCHANGED chats
  /\ UNCHANGED handler_vars

\* A message written for task t by the run queued for it (afake_system in the
\* tests).
afake_system(t) ==
  /\ t \in 1..Len(tasks)
  /\ HasRoom
  /\ store' = Append(store,
        [task_id |-> t, role |-> "system", parent_id |-> None, agent_id |-> None,
         content |-> [type |-> "SYSTEM", message |-> "test"]])
  /\ audit' = Append(audit, [writes |-> 1, run |-> Unset])
  /\ UNCHANGED <<chats, tasks, queue, response>>
  /\ UNCHANGED handler_vars

\* Every task there is.
every_task(c) == 1..Len(tasks)

\* The tasks of chat c: its own task and the subtasks parented to it.
chat_task_tree(c) ==
  {chats[c].task} \cup {t \in 1..Len(tasks) : tasks[t].parent = chats[c].task}

\* GET /chats/{id}/messages: the messages of the chat's tasks, oldest first.
get_messages(c) ==
  /\ chat_exists(c)
  /\ response' = [NoResponse EXCEPT
        !.status = 200,
        !.objects = OldestFirst({i \in 1..Len(store) : store[i].task_id \in chat_task_tree(c)})]
  /\ UNCHANGED <<chats, tasks, queue, store, audit>>
  /\ UNCHANGED handler_vars

\* The chat resource and its members.
NextChat ==
  \/ \E name \in ChatNames, lead_id \in {None} \cup Agents : create_chat(name, lead_id)
  \/ \E c \in ChatIdSpace : get_chat(c)
  \/ list_chats
  \/ \E c \in ChatIdSpace, name \in ChatNames, lead_id \in Agents :
       update_chat(c, name, lead_id)
  \/ \E c \in ChatIdSpace : delete_chat(c)
  \/ \E c \in ChatIdSpace, a \in AgentIdSpace : add_agent(c, a)
  \/ \E c \in ChatIdSpace, a \in AgentIdSpace : remove_agent(c, a)

SpecChat == Init /\ [][NextChat]_vars

\* The messages of chats: chats with their members, messages posted, messages
\* of the runs, and the listing.
NextChatMessages ==
  \/ \E lead_id \in {None} \cup Agents : create_chat("New Chat", lead_id)
  \/ \E c \in ChatIds, a \in Agents : add_agent(c, a)
  \/ \E c \in ChatIds, text \in Texts : send_message(c, text)
  \/ \E t \in 1..Len(tasks) : afake_system(t)
  \/ \E c \in ChatIds : get_messages(c)

SpecChatMessages == Init /\ [][NextChatMessages]_vars

----------------------------------------------------------------------------
\* Properties

\* The rows of st whose content has the given type.
RowsOfType(st, type) == {i \in 1..Len(st) : st[i].content.type = type}

\* The tokens the engine delivered for placeholder m, as the channel saw them,
\* oldest first; a None token stands for no text.
RECURSIVE TextsFor(_, _)
TextsFor(ch, m) ==
  IF ch = <<>> THEN <<>>
  ELSE IF Head(ch).message_id = m
       THEN <<IF Head(ch).text.is_str THEN Head(ch).text.text ELSE "">>
              \o TextsFor(Tail(ch), m)
       ELSE TextsFor(Tail(ch), m)

RECURSIVE Concat(_)
Concat(texts) == IF texts = <<>> THEN "" ELSE Head(texts) \o Concat(Tail(texts))

\* C1: streaming round trip. When on_chat_model_start (openai-chat, stream=True)
\* made a placeholder for the context of chain run r, tokens t1..tN followed for
\* r, and on_chain_end(r) came, the placeholder has stream=False and its text is
\* t1+...+tN in arrival order.
C1_RoundTrip ==
  \A r \in RunIds :
    (chains[r].status = "ended" /\ trip[r] # None) =>
      /\ store[trip[r]].content.type = "ASSISTANT"
      /\ store[trip[r]].content.stream = FALSE
      /\ store[trip[r]].content.text = Concat(TextsFor(channel, trip[r]))

\* A round trip with two different tokens has ended.
C1_Witness ==
  \E r \in RunIds :
    /\ chains[r].status = "ended"
    /\ trip[r] # None
    /\ TextsFor(channel, trip[r]) = <<"a", "b">>
    /\ store[trip[r]].content.text = "ab"

\* C2: every on_llm_new_token on a streaming context publishes exactly one
\* update, for the context's placeholder and with index = the length of the
\* buffer after the call; a token that is no string leaves the buffer as it was.
C2_TokenUpdate ==
  [][\A h \in HandlerIds, t \in Tokens, p \in RunIds :
       (/\ on_llm_new_token(h, t, p)
        /\ p \in DOMAIN Registry(h)
        /\ Registry(h)[p].is_streaming)
       => LET context == Registry(h)[p]
          IN /\ channel' = Append(channel,
                  [task |-> TaskId(h), message_id |-> context.message,
                   index |-> Len(TokensOf(lists', context)), text |-> t])
             /\ context.message # None
             /\ ~t.is_str => TokensOf(lists', context) = TokensOf(lists, context)
             /\ t.is_str => TokensOf(lists', context)
                              = Append(TokensOf(lists, context), t.text)]_vars

\* A None token was published after a string token, with the index of the
\* string token.
C2_Witness ==
  /\ Len(channel) = 2
  /\ channel[1].text.is_str /\ channel[1].index = 1
  /\ ~channel[2].text.is_str /\ channel[2].index = 1
  /\ channel[2].message_id = channel[1].message_id

\* The run of the first on_chain_start of handler h: run ids are handed out in
\* order.
FirstRun(h) == CHOOSE r \in StartedRuns(h) : \A q \in StartedRuns(h) : r <= q

\* C3: one handler has at most one THINK message: the first on_chain_start
\* creates it, with the inputs of that call and the agent's alias, and every
\* later on_chain_start creates no message and leaves the recorded think
\* message and start time as they are.
C3_OneThink ==
  /\ [](\A h \in live :
         LET thinks == {i \in RowsOfType(store, "THINK") : store[i].task_id = TaskId(h)}
         IN IF StartedRuns(h) = {}
            THEN thinks = {} /\ parent_think_msg[h] = None
            ELSE /\ thinks = {parent_think_msg[h]}
                 /\ store[parent_think_msg[h]].content
                      = [type |-> "THINK", input |-> InputsOf(FirstRun(h)),
                         agent |-> AgentAlias(h)]
                 /\ start[h] # Unset)
  /\ [][\A h \in HandlerIds, r \in RunIds, p \in Keys :
          (on_chain_start(h, InputsOf(r), r, p) /\ StartedRuns(h) # {})
          => /\ store' = store
             /\ parent_think_msg' = parent_think_msg
             /\ start' = start]_vars

\* A second chain started, later than the first, and there is one THINK message.
C3_Witness ==
  /\ StartedRuns(1) = {1, 2}
  /\ Cardinality(RowsOfType(store, "THINK")) = 1
  /\ now > start[1]

\* C4: each on_chain_error call creates exactly one EXECUTE_ERROR message,
\* under the think message when there is one and at the root otherwise, with
\* the error's type name and string form.
C4_ErrorRecorded ==
  [][\A h \in HandlerIds, e \in Errors, r \in RunIds, p \in Keys :
       on_chain_error(h, e, r, p)
       => /\ Len(store') = Len(store) + 1
          /\ SubSeq(store', 1, Len(store)) = store
          /\ store'[Len(store')].parent_id = parent_think_msg[h]
          /\ store'[Len(store')].content.type = "EXECUTE_ERROR"
          /\ store'[Len(store')].content.error_type = e.type
          /\ store'[Len(store')].content.text = e.text]_vars

\* C5: on_chain_error never raises, whatever error the engine passes.
C5_ErrorNeverRaises ==
  [][\A h \in HandlerIds, e \in Errors, r \in RunIds, p \in Keys :
       on_chain_error(h, e, r, p) => raised' = ""]_vars

\* C6: on_chain_end of the outermost chain (no parent_run_id) creates exactly
\* one THOUGHT message under the think message; on_chain_end of a nested chain
\* creates no message.
C6_ThoughtAtOutermostEnd ==
  [][\A h \in HandlerIds, r \in RunIds, p \in Keys :
       on_chain_end(h, r, p)
       => IF p = None
          THEN /\ Len(store') = Len(store) + 1
               /\ RowsOfType(store', "THOUGHT")
                    = RowsOfType(store, "THOUGHT") \cup {Len(store')}
               /\ parent_think_msg[h] # None
               /\ store'[Len(store')].parent_id = parent_think_msg[h]
               /\ store[parent_think_msg[h]].content.type = "THINK"
               /\ raised' = ""
          ELSE /\ Len(store') = Len(store)
               /\ RowsOfType(store', "THOUGHT") = RowsOfType(store, "THOUGHT")]_vars

\* A nested chain and the outermost chain have both ended, and there is one
\* THOUGHT message.
C6_Witness ==
  /\ chains[1].status = "ended"
  /\ chains[2].status = "ended"
  /\ Cardinality(RowsOfType(store, "THOUGHT")) = 1

\* C7: on_chat_model_start creates an ASSISTANT placeholder and marks the
\* context streaming if and only if the params of this call declare
\* openai-chat and stream=True, whatever came before on the same parent run.
C7_PlaceholderIffStreamingCall ==
  [][\A h \in HandlerIds, ps \in ParamSet, p \in RunIds :
       on_chat_model_start(h, ps, p)
       => LET wanted == ps._type = "openai-chat" /\ ps.stream
          IN IF wanted
             THEN /\ store' = Append(store,
                       [task_id |-> TaskId(h), role |-> "assistant",
                        parent_id |-> parent_think_msg[h],
                        content |-> [type |-> "ASSISTANT", text |-> "",
                                     agent |-> AgentAlias(h), stream |-> TRUE]])
                  /\ Registry(h)'[p].is_streaming
                  /\ Registry(h)'[p].message = Len(store')
             ELSE store' = store]_vars

\* C8: a streaming placeholder whose enclosing chain run has ended was written
\* exactly twice, at creation and at finalize, and is not left with stream=True.
C8_PlaceholderWrittenTwice ==
  \A i \in 1..Len(store) :
    (audit[i].run \in RunIds /\ chains[audit[i].run].status = "ended")
    => /\ audit[i].writes = 2
       /\ store[i].content.stream = FALSE

\* C9: rows are never removed, and the only row a callback changes after its
\* creation is a streaming ASSISTANT placeholder, of which it changes content
\* only; THINK, THOUGHT and EXECUTE_ERROR rows stay as created.
C9_WriteOnce ==
  [][/\ Len(store') >= Len(store)
     /\ \A i \in 1..Len(store) :
          store'[i] # store[i]
          => /\ store[i].content.type = "ASSISTANT"
             /\ store[i].content.stream = TRUE
             /\ store'[i].task_id = store[i].task_id
             /\ store'[i].role = store[i].role
             /\ store'[i].parent_id = store[i].parent_id]_vars

\* A placeholder was finalized with text while a THINK and a THOUGHT message
\* exist.
C9_Witness ==
  /\ RowsOfType(store, "THINK") # {}
  /\ RowsOfType(store, "THOUGHT") # {}
  /\ \E i \in RowsOfType(store, "ASSISTANT") :
       store[i].content.stream = FALSE /\ store[i].content.text = "a"

\* The contexts that exist: handler, key.
Entries == {e \in live \X Keys : e[2] \in DOMAIN Registry(e[1])}

\* C10: the registry is get-or-create. A lookup of a key that has a context
\* yields that context and changes nothing; a lookup of a new key adds a
\* context with is_streaming=False, no message and an empty token list, and
\* keeps the others; no two contexts share a token list, and no two handlers
\* share a registry.
C10_Registry ==
  /\ \A h \in live :
       LET g == contexts[h]
           reg == registries[g]
       IN \A k \in Keys :
            LET after == contexts_getitem(reg, g, k)
            IN /\ k \in DOMAIN after
               /\ contexts_getitem(after, g, k) = after
               /\ \A j \in DOMAIN reg : after[j] = reg[j]
               /\ DOMAIN after = DOMAIN reg \cup {k}
               /\ k \notin DOMAIN reg =>
                    /\ after[k].is_streaming = FALSE
                    /\ after[k].message = None
                    /\ TokensOf(lists, after[k]) = <<>>
                    /\ \A e \in Entries :
                         Registry(e[1])[e[2]].tokens # after[k].tokens
  /\ \A e1, e2 \in Entries :
       e1 # e2 => Registry(e1[1])[e1[2]].tokens # Registry(e2[1])[e2[2]].tokens
  /\ \A h1, h2 \in live : h1 # h2 => contexts[h1] # contexts[h2]

\* Two handlers hold a context each, with different tokens buffered, and one
\* key has no context yet.
C10_Witness ==
  /\ live = {1, 2}
  /\ \E k1, k2 \in Keys :
       /\ <<1, k1>> \in Entries /\ <<2, k2>> \in Entries
       /\ TokensOf(lists, Registry(1)[k1]) = <<"a">>
       /\ TokensOf(lists, Registry(2)[k2]) = <<"b">>
  /\ \E h \in live, k \in Keys : <<h, k>> \notin Entries

\* The context of key k in the registry of handler h, with its token buffer
\* read through the reference; Unset when k has no context.
ContextView(regs, ls, h, k) ==
  IF k \in DOMAIN regs[contexts[h]]
  THEN [is_streaming |-> regs[contexts[h]][k].is_streaming,
        message |-> regs[contexts[h]][k].message,
        tokens |-> TokensOf(ls, regs[contexts[h]][k])]
  ELSE [is_streaming |-> FALSE, message |-> Unset, tokens |-> <<>>]

\* Every context but the one of key p is as it was, in every live handler.
OthersUnchanged(h, p) ==
  \A g \in live, k \in Keys :
    (g # h \/ k # p)
    => ContextView(registries', lists', g, k) = ContextView(registries, lists, g, k)

\* C11: per-key independence. on_chat_model_start and on_llm_new_token change
\* at most the context of their parent_run_id, on_chain_end at most the one of
\* its run_id: flag, message and token buffer of every other context stay.
C11_PerKeyIndependence ==
  [][/\ \A h \in HandlerIds, ps \in ParamSet, p \in Keys :
          on_chat_model_start(h, ps, p) => OthersUnchanged(h, p)
     /\ \A h \in HandlerIds, t \in Tokens, p \in Keys :
          on_llm_new_token(h, t, p) => OthersUnchanged(h, p)
     /\ \A h \in HandlerIds, r \in RunIds, p \in Keys :
          on_chain_end(h, r, p) => OthersUnchanged(h, r)]_vars

\* Two contexts under different run ids: one streaming with two tokens
\* buffered, the other with no message and no token.
C11_Witness ==
  \E h \in live, k1, k2 \in RunIds :
    /\ k1 # k2
    /\ ContextView(registries, lists, h, k1).tokens = <<"a", "b">>
    /\ ContextView(registries, lists, h, k1).is_streaming
    /\ ContextView(registries, lists, h, k2)
         = [is_streaming |-> FALSE, message |-> None, tokens |-> <<>>]

\* The updates published for the context of key k of handler h, oldest first:
\* those for the placeholders made for k.
RECURSIVE UpdatesOf(_, _, _)
UpdatesOf(ch, h, k) ==
  IF ch = <<>> THEN <<>>
  ELSE IF Head(ch).task = TaskId(h) /\ audit[Head(ch).message_id].run = k
       THEN <<Head(ch)>> \o UpdatesOf(Tail(ch), h, k)
       ELSE UpdatesOf(Tail(ch), h, k)

\* The updates of ups that carry a string token.
RECURSIVE StrUpdates(_)
StrUpdates(ups) ==
  IF ups = <<>> THEN <<>>
  ELSE IF Head(ups).text.is_str
       THEN <<Head(ups)>> \o StrUpdates(Tail(ups))
       ELSE StrUpdates(Tail(ups))

\* C17 as stated: every update carries the 1-based position of its token in
\* the buffer, index >= 1 with the published text at that position, and the
\* indices published for one context are 1, 2, 3, ... without repeats.
C17_OneBasedEveryUpdate ==
  \A h \in live, k \in RunIds :
    LET ups == UpdatesOf(channel, h, k)
        buf == ContextView(registries, lists, h, k).tokens
    IN \A j \in 1..Len(ups) :
         /\ ups[j].index >= 1
         /\ ups[j].index = j
         /\ ups[j].index <= Len(buf)
         /\ ups[j].text = StrToken(buf[ups[j].index])

\* C17 amended: an update for a string token carries the token's 1-based
\* position (index >= 1, the buffer holds the published text there), the
\* indices of one context never decrease and rise with every string token, and
\* they are 1, 2, 3, ... when every buffered token was published; an update for
\* a token that is no string carries the length of the buffer as it is (0, or
\* the last position again).
C17_OneBasedStrUpdates ==
  \A h \in live, k \in RunIds :
    LET ups == UpdatesOf(channel, h, k)
        strs == StrUpdates(ups)
        buf == ContextView(registries, lists, h, k).tokens
    IN /\ \A j \in 1..Len(ups) :
            /\ ups[j].index \in 0..Len(buf)
            /\ ups[j].text.is_str =>
                 /\ ups[j].index >= 1
                 /\ buf[ups[j].index] = ups[j].text.text
            /\ j > 1 => /\ ups[j].index >= ups[j-1].index
                        /\ ups[j].text.is_str => ups[j].index > ups[j-1].index
                        /\ ~ups[j].text.is_str => ups[j].index = ups[j-1].index
                                                  \/ Len(strs) < Len(buf)
       /\ Len(strs) = Len(buf) => \A j \in 1..Len(strs) : strs[j].index = j

\* A token that is no string was published with index 0, and the string token
\* after it with index 1.
C17_Witness ==
  \E h \in live, k \in RunIds :
    LET ups == UpdatesOf(channel, h, k)
    IN /\ Len(ups) = 2
       /\ ~ups[1].text.is_str /\ ups[1].index = 0
       /\ ups[2].text.is_str /\ ups[2].index = 1

\* C18: finalize_stream is idempotent and keeps the buffer. A call on a context
\* with a message writes stream=False and the joined buffer, leaves the buffer
\* as it is, and a second call with no token in between writes the same again.
C18_FinalizeIdempotent ==
  [][\A h \in HandlerIds, k \in Keys :
       (RunContext_finalize_stream(h, k) /\ Registry(h)[k].message # None)
       => LET context == Registry(h)[k]
              m == context.message
          IN /\ store'[m].content.stream = FALSE
             /\ store'[m].content.text = Join(TokensOf(lists, context))
             /\ TokensOf(lists', context) = TokensOf(lists, context)
             /\ finalize_stream(context, lists', store') = store'
             /\ (~store[m].content.stream
                   /\ store[m].content.text = Join(TokensOf(lists, context)))
                 => store' = store]_vars

\* A placeholder was finalized twice with the text "ab" while its chain run is
\* still open.
C18_Witness ==
  \E h \in live, k \in RunIds :
    /\ IsOpen(h, k)
    /\ k \in DOMAIN Registry(h)
    /\ Registry(h)[k].message # None
    /\ audit[Registry(h)[k].message].writes = 3
    /\ store[Registry(h)[k].message].content.text = "ab"
    /\ TokensOf(lists, Registry(h)[k]) = <<"a", "b">>

\* C19: finalize without a placeholder is a no-op. finalize_stream on a context
\* with no message writes nothing and changes nothing; on_chain_end for a run
\* whose context is not streaming writes no placeholder and alters no row.
C19_FinalizeNoOp ==
  [][/\ \A h \in HandlerIds, k \in Keys :
          (RunContext_finalize_stream(h, k) /\ Registry(h)[k].message = None)
          => /\ store' = store
             /\ audit' = audit
             /\ registries' = registries
             /\ lists' = lists
     /\ \A h \in HandlerIds, r \in RunIds, p \in Keys :
          (on_chain_end(h, r, p) /\ ~ContextView(registries, lists, h, r).is_streaming)
          => /\ Len(store') >= Len(store)
             /\ SubSeq(store', 1, Len(store)) = store
             /\ SubSeq(audit', 1, Len(audit)) = audit]_vars

\* A chain run ended whose context was not streaming but holds a placeholder:
\* the placeholder is as it was created; and a context without a message exists.
C19_Witness ==
  /\ \E h \in live, r \in RunIds :
       /\ chains[r].status = "ended" /\ chains[r].h = h
       /\ r \in DOMAIN Registry(h)
       /\ ~Registry(h)[r].is_streaming
       /\ Registry(h)[r].message # None
       /\ store[Registry(h)[r].message].content.stream
       /\ audit[Registry(h)[r].message].writes = 1
  /\ \E h \in live, k \in RunIds :
       k \in DOMAIN Registry(h) /\ Registry(h)[k].message = None

\* C20: a failed message-store write in on_chain_start, on_chat_model_start or
\* on_chain_end propagates to the caller and is not tried again: the callback
\* raises, the row of the failed write is not in the store and nothing is
\* written after it; after a failed THINK write no think message is recorded.
C20_WriteFailurePropagates ==
  [][/\ \A h \in HandlerIds, r \in RunIds, p \in Keys :
          on_chain_start_fails(h, InputsOf(r), r, p)
          => /\ raised' = "DatabaseError"
             /\ store' = store /\ audit' = audit
             /\ parent_think_msg'[h] = None
     /\ \A h \in HandlerIds, ps \in ParamSet, p \in Keys :
          on_chat_model_start_fails(h, ps, p)
          => /\ raised' = "DatabaseError"
             /\ store' = store /\ audit' = audit
             /\ Registry(h)'[p].message = ContextView(registries, lists, h, p).message
                \/ (p \notin DOMAIN Registry(h) /\ Registry(h)'[p].message = None)
     /\ \A h \in HandlerIds, r \in RunIds, p \in Keys :
          on_chain_end_finalize_fails(h, r, p)
          => /\ raised' = "DatabaseError"
             /\ store' = store /\ audit' = audit
     /\ \A h \in HandlerIds, r \in RunIds, p \in Keys :
          on_chain_end_thought_fails(h, r, p)
          => /\ raised' = "DatabaseError"
             /\ Len(store') = Len(store)
             /\ RowsOfType(store', "THOUGHT") = RowsOfType(store, "THOUGHT")
             /\ \A i \in 1..Len(audit) : audit'[i].writes <= audit[i].writes + 1]_vars

\* The THINK write of the first on_chain_start failed: the start time is set
\* and no think message is recorded; the store is empty.
C20_Witness ==
  /\ raised = "DatabaseError"
  /\ chains[1].status = "open"
  /\ start[1] # Unset
  /\ parent_think_msg[1] = None
  /\ store = <<>>

\* C12: posting a message creates one FEEDBACK message with no agent and queues
\* one run: without @mention for the chat's own task and the lead's chain, with
\* @alias of a member agent for a new subtask under the chat's task and that
\* agent's chain.
C12_SendMessage ==
  [][\A c \in ChatIds, text \in Texts :
       send_message(c, text)
       => /\ Len(store') = Len(store) + 1
          /\ SubSeq(store', 1, Len(store)) = store
          /\ store'[Len(store')].content = [type |-> "FEEDBACK", feedback |-> text]
          /\ store'[Len(store')].agent_id = None
          /\ Len(queue') = Len(queue) + 1
          /\ SubSeq(queue', 1, Len(queue)) = queue
          /\ LET run == queue'[Len(queue')]
             IN /\ run.inputs.user_input = text /\ run.inputs.chat_id = c
                /\ IF text[1] # "@"
                   THEN /\ tasks' = tasks
                        /\ run.task_id = chats[c].task
                        /\ run.chain_id = chain_id_of(chats[c].lead)
                   ELSE (text = <<"@", "b", " ", "h", "i">> /\ 2 \in chats[c].agents)
                        => /\ tasks' = Append(tasks, [parent |-> chats[c].task])
                           /\ run.task_id = Len(tasks')
                           /\ run.chain_id = chain_id_of(2)]_vars

\* A message went to the lead and one to member agent 2: two FEEDBACK rows, a
\* run for the chat's task and a run for a subtask of it.
C12_Witness ==
  \E c \in ChatIds :
    /\ chat_exists(c)
    /\ Cardinality(RowsOfType(store, "FEEDBACK")) = 2
    /\ Len(queue) = 2
    /\ \E i, j \in 1..2 :
         /\ queue[i].task_id = chats[c].task
         /\ queue[i].chain_id = chain_id_of(chats[c].lead)
         /\ tasks[queue[j].task_id].parent = chats[c].task
         /\ queue[j].chain_id = chain_id_of(2)

\* C13: adding an agent is idempotent. An agent that is neither lead nor member
\* becomes a member and is reported; a member or the lead changes nothing and
\* is answered 200 with agent_id null; after any add, adding again is a no-op.
C13_AddAgentIdempotent ==
  [][\A c \in ChatIds, a \in Agents :
       (add_agent(c, a) /\ chats[c].status = "live")
       => /\ response'.status = 200 /\ response'.chat_id = c
          /\ \A d \in ChatIds \ {c} : chats'[d] = chats[d]
          /\ IF a # chats[c].lead /\ a \notin chats[c].agents
             THEN /\ chats'[c] = [chats[c] EXCEPT !.agents = @ \cup {a}]
                  /\ response'.agent_id = a
             ELSE /\ chats' = chats
                  /\ response'.agent_id = None
          /\ a = chats'[c].lead \/ a \in chats'[c].agents]_vars

\* The lead of a chat was added to it: the answer is 200 with agent_id null and
\* the chat has no member.
C13_Witness ==
  \E c \in ChatIds :
    /\ chat_exists(c)
    /\ chats[c].agents = {}
    /\ response = [NoResponse EXCEPT !.status = 200, !.chat_id = c]
    /\ \E d \in ChatIds : chat_exists(d) /\ chats[d].agents # {}

\* C14: add-member and remove-member requests for a missing chat are answered
\* 404 "Chat does not exist.", those for a missing agent 404 "Agent does not
\* exist.", and no chat's members change.
C14_MembershipNotFound ==
  [][\A c \in ChatIdSpace, a \in AgentIdSpace :
       (add_agent(c, a) \/ remove_agent(c, a))
       => /\ (c \notin ChatIds \/ chats[c].status # "live")
             => /\ response' = [NoResponse EXCEPT !.status = 404,
                                                   !.detail = "Chat does not exist."]
                /\ chats' = chats
          /\ (c \in ChatIds /\ chats[c].status = "live" /\ a \notin Agents)
             => /\ response' = [NoResponse EXCEPT !.status = 404,
                                                   !.detail = "Agent does not exist."]
                /\ chats' = chats]_vars

\* A request named a missing agent for a chat that has a member.
C14_Witness ==
  /\ response.status = 404
  /\ response.detail = "Agent does not exist."
  /\ \E c \in ChatIds : chat_exists(c) /\ chats[c].agents # {}

\* C15: a delete of a chat answers {"id": id}; from then on get, update and
\* delete of that id answer 404 "Chat not found" and the chat is in no list;
\* a delete of an id without chat answers 404 and changes nothing.
C15_DeletedStaysGone ==
  [][/\ \A c \in ChatIdSpace :
          delete_chat(c)
          => IF c \in ChatIds /\ chats[c].status = "live"
             THEN /\ response' = [NoResponse EXCEPT !.status = 200, !.id = c]
                  /\ chats'[c].status = "deleted"
             ELSE /\ response' = [NoResponse EXCEPT !.status = 404,
                                                     !.detail = "Chat not found"]
                  /\ chats' = chats /\ tasks' = tasks /\ store' = store
     /\ \A c \in ChatIds, name \in ChatNames, lead_id \in Agents :
          (chats[c].status = "deleted" /\ (get_chat(c) \/ update_chat(c, name, lead_id)))
          => /\ response' = [NoResponse EXCEPT !.status = 404, !.detail = "Chat not found"]
             /\ chats' = chats
     /\ list_chats
          => \A i \in 1..Len(response'.objects) :
               chats[response'.objects[i]].status = "live"
     /\ \A c \in ChatIds : chats[c].status = "deleted" => chats'[c].status = "deleted"]_vars

\* Chat 1 is deleted, chat 2 exists, and the last request was answered 404
\* "Chat not found".
C15_Witness ==
  /\ chats[1].status = "deleted"
  /\ chat_exists(2)
  /\ response = [NoResponse EXCEPT !.status = 404, !.detail = "Chat not found"]

\* C16: the listing of a chat's messages holds exactly the messages of the
\* chat's own task and of the subtasks parented to it, oldest first.
C16_ChatMessages ==
  [][\A c \in ChatIds :
       get_messages(c)
       => LET objs == response'.objects
          IN /\ {objs[i] : i \in 1..Len(objs)}
                  = {i \in 1..Len(store) :
                       \/ store[i].task_id = chats[c].task
                       \/ tasks[store[i].task_id].parent = chats[c].task}
             /\ \A i, j \in 1..Len(objs) : i < j => objs[i] < objs[j]]_vars

\* A listing of two messages, one of them of a subtask, while the store holds a
\* third message of another chat's task.
C16_Witness ==
  /\ response.status = 200
  /\ Len(response.objects) = 2
  /\ Len(store) = 3
  /\ \E i \in 1..2 : tasks[store[response.objects[i]].task_id].parent # None
  /\ \E c \in ChatIds, m \in 1..3 :
       /\ chat_exists(c)
       /\ store[m].task_id = chats[c].task
       /\ \A i \in 1..2 : response.objects[i] # m

\* C24: on_llm_new_token for a parent_run_id whose context has no placeholder
\* message fails and publishes no update, yet a string token is already in the
\* context's buffer: the failed call does not leave the context as it was.
C24_TokenWithoutPlaceholder ==
  [][\A h \in HandlerIds, t \in Tokens, p \in Keys :
       (/\ on_llm_new_token(h, t, p)
        /\ ContextView(registries, lists, h, p).message \in {None, Unset})
       => LET before == ContextView(registries, lists, h, p)
              after == ContextView(registries', lists', h, p)
          IN /\ raised' = "AttributeError"
             /\ channel' = channel
             /\ store' = store
             /\ after.message = None
             /\ after.is_streaming = before.is_streaming
             /\ t.is_str => /\ after.tokens = Append(before.tokens, t.text)
                            /\ after # before
             /\ ~t.is_str => after.tokens = before.tokens]_vars

\* Two string tokens arrived for a run whose context has no placeholder: both
\* calls failed, nothing was published, and the buffer holds both tokens.
C24_Witness ==
  /\ raised = "AttributeError"
  /\ channel = <<>>
  /\ \E h \in live, k \in RunIds :
       /\ IsOpen(h, k)
       /\ ContextView(registries, lists, h, k).message = None
       /\ ContextView(registries, lists, h, k).tokens = <<"a", "b">>

\* The placeholders made under parent run k, by their ids.
PlaceholdersOf(k) == {i \in 1..Len(store) : audit[i].run = k}

\* C22: the model invocations started under one parent chain run share one
\* RunContext. Its buffer is never reset: it changes only when on_llm_new_token
\* under that parent appends its string token; a further on_chat_model_start
\* keeps the buffer and moves the context's message to the new placeholder. At
\* the chain's on_chain_end the one finalize write goes to the most recently
\* created placeholder only, with the concatenation of the whole buffer.
C22_SharedContext ==
  [][/\ \A h \in live, k \in Keys :
          LET before == ContextView(registries, lists, h, k).tokens
              after == ContextView(registries', lists', h, k).tokens
          IN \/ after = before
             \/ \E t \in Tokens :
                  /\ on_llm_new_token(h, t, k)
                  /\ t.is_str
                  /\ after = Append(before, t.text)
     /\ \A h \in HandlerIds, t \in Tokens, p \in Keys :
          (on_llm_new_token(h, t, p) /\ t.is_str)
          => ContextView(registries', lists', h, p).tokens
               = Append(ContextView(registries, lists, h, p).tokens, t.text)
     /\ \A h \in HandlerIds, ps \in ParamSet, p \in Keys :
          (on_chat_model_start(h, ps, p) /\ Len(store') > Len(store))
          => /\ ContextView(registries', lists', h, p).message = Len(store')
             /\ PlaceholdersOf(p)' = PlaceholdersOf(p) \cup {Len(store')}
             /\ p \in DOMAIN Registry(h)
                  => Registry(h)'[p].tokens = Registry(h)[p].tokens
     /\ \A h \in HandlerIds, r \in RunIds, p \in Keys :
          (on_chain_end(h, r, p) /\ ContextView(registries, lists, h, r).is_streaming)
          => LET context == ContextView(registries, lists, h, r)
                 m == context.message
             IN /\ m \in PlaceholdersOf(r)
                /\ \A i \in PlaceholdersOf(r) : i <= m
                /\ store'[m].content.stream = FALSE
                /\ store'[m].content.text = Join(context.tokens)
                /\ audit'[m].writes = audit[m].writes + 1
                /\ \A i \in 1..Len(store) :
                     i # m => store'[i] = store[i] /\ audit'[i] = audit[i]]_vars

\* Two model invocations streamed under one chain run, a token each: the run
\* has ended, the first placeholder is as it was created, and the second holds
\* the tokens of both.
C22_Witness ==
  \E r \in RunIds :
    /\ chains[r].status = "ended"
    /\ \E i, m \in PlaceholdersOf(r) :
         /\ i < m
         /\ store[i].content.stream = TRUE /\ store[i].content.text = ""
         /\ store[m].content.stream = FALSE /\ store[m].content.text = "ab"
         /\ TextsFor(channel, i) = <<"a">>
         /\ TextsFor(channel, m) = <<"b">>

\* C23: on_chain_error only appends one EXECUTE_ERROR message: every
\* RunContext (is_streaming, message, tokens), the think message reference and
\* every existing message are as before, so a placeholder that was streaming
\* when the error arrived still has stream=True.
C23_ErrorOnlyAppends ==
  [][\A h \in HandlerIds, e \in Errors, r \in RunIds, p \in Keys :
       on_chain_error(h, e, r, p)
       => /\ Len(store') = Len(store) + 1
          /\ store'[Len(store')].content.type = "EXECUTE_ERROR"
          /\ SubSeq(store', 1, Len(store)) = store
          /\ \A g \in live, k \in Keys :
               ContextView(registries', lists', g, k) = ContextView(registries, lists, g, k)
          /\ registries' = registries
          /\ parent_think_msg' = parent_think_msg
          /\ \A i \in 1..Len(store) :
               (store[i].content.type = "ASSISTANT" /\ store[i].content.stream)
               => store'[i].content.stream]_vars

\* The chain runs of handler h whose on_chain_start is suspended at its await.
Suspended(h) == {r \in RunIds : chains[r].status = "starting" /\ chains[r].h = h}

\* C21: when two on_chain_start callbacks of one handler overlap, the second
\* starting while the first is suspended at the THINK write, the handler ends
\* with exactly one THINK message, which is the think reference, and every
\* later THOUGHT, ASSISTANT and EXECUTE_ERROR message is threaded under it.
C21_OverlapOneThink ==
  /\ [](\A h \in live :
         (Suspended(h) = {} /\ StartedRuns(h) # {})
         => {i \in RowsOfType(store, "THINK") : store[i].task_id = TaskId(h)}
              = {parent_think_msg[h]})
  /\ [][\A h \in live :
          (/\ Suspended(h) = {}
           /\ Len(store') = Len(store) + 1
           /\ store'[Len(store')].task_id = TaskId(h)
           /\ store'[Len(store')].content.type \in {"THOUGHT", "ASSISTANT", "EXECUTE_ERROR"})
          => /\ parent_think_msg[h] # None
             /\ store'[Len(store')].parent_id = parent_think_msg[h]
             /\ parent_think_msg'[h] = parent_think_msg[h]]_vars

====
